---- MODULE Spec2Model ----
(***************************************************************************)
(* Model of src/backend/modules/apis/acoustid.py: the parsing of an        *)
(* AcoustID lookup response into a flat list of track metadata, and the    *)
(* module-level list titles_identified_by_acoustid that lookup and submit  *)
(* share.                                                                  *)
(*                                                                         *)
(* Python values are modelled as follows.                                  *)
(*   dict with optional keys  -> record; "k in d" is "k \in DOMAIN d"       *)
(*   list                     -> sequence                                  *)
(*   str                      -> string, + is \o                           *)
(*   x or None                -> <<x>> or <<>>                              *)
(*   insertion-ordered dict   -> sequence of [key, val] items              *)
(***************************************************************************)
EXTENDS Naturals, Sequences, FiniteSets, TLC

VARIABLES
    data,                           \* argument of _parse_lookup_result (mutated in place by setdefault)
    filter_args,                    \* arguments of the calls of _filter_out_compilations_from_releasegroups
    recordings,                     \* local "recordings" of _parse_lookup_result: the merged recordings
    results,                        \* value returned by _parse_lookup_result
    raised,                         \* message of the acoustid.WebServiceError raised, if any
    titles_identified_by_acoustid,  \* the module-level list
    metadata,                       \* argument of the last call of submit
    submit_ret,                     \* value returned by the last call of submit
    service_calls,                  \* calls made to the external acoustid library by submit
    at_call,                        \* history: the module-level state when the last call began
    produced,                       \* history: keys of the recordings lookups have produced
    pc,                             \* position of the sequential caller
    guarded, lock, tpc, top, tkey   \* concurrent call sites: guard in use, its holder, per-thread state

vars == <<data, filter_args, recordings, results, raised,
          titles_identified_by_acoustid, metadata, submit_ret, service_calls,
          at_call, produced, pc, guarded, lock, tpc, top, tkey>>

(***************************************************************************)
(* Bounds                                                                  *)
(***************************************************************************)
\* Largest number of recordings in one lookup response.
MaxRecs == 3

\* Number of concurrent call sites.
NumThreads == 2

(***************************************************************************)
(* Python built-ins used by the module                                     *)
(***************************************************************************)
None == <<>>

Some(x) == <<x>>

Has(d, k) == k \in DOMAIN d

Range(s) == {s[i] : i \in 1..Len(s)}

\* sep.join(strs)
RECURSIVE Join(_, _)
Join(strs, sep) ==
    IF strs = <<>> THEN ""
    ELSE IF Len(strs) = 1 THEN strs[1]
    ELSE strs[1] \o sep \o Join(Tail(strs), sep)

\* Mutant of DictSet: assigning to a key that is present moves it to the end.
DictSet_moves_to_end(d, k, v) ==
    Append(SelectSeq(d, LAMBDA item : item.key # k), [key |-> k, val |-> v])

\* k in d, d[k] and d[k] = v on an insertion-ordered dict
DictHas(d, k) == \E i \in 1..Len(d) : d[i].key = k

DictGet(d, k) == d[CHOOSE i \in 1..Len(d) : d[i].key = k].val

DictSet(d, k, v) ==
    IF DictHas(d, k)
    THEN [i \in 1..Len(d) |-> IF d[i].key = k THEN [key |-> k, val |-> v] ELSE d[i]]
    ELSE Append(d, [key |-> k, val |-> v])

(***************************************************************************)
(* utils.list_helper                                                       *)
(***************************************************************************)
\* flatten(lists): the lists concatenated in order
RECURSIVE flatten(_)
flatten(lists) ==
    IF lists = <<>> THEN <<>> ELSE Head(lists) \o flatten(Tail(lists))

\* remove_duplicate_dicts(dicts): first occurrences, in order
RECURSIVE remove_duplicate_dicts(_)
remove_duplicate_dicts(dicts) ==
    IF dicts = <<>> THEN <<>>
    ELSE LET init == remove_duplicate_dicts(SubSeq(dicts, 1, Len(dicts) - 1))
             last == dicts[Len(dicts)]
         IN  IF last \in Range(init) THEN init ELSE Append(init, last)

(***************************************************************************)
(* _join_artist_names                                                      *)
(***************************************************************************)
join_artist_names(artists) ==
    Join([i \in 1..Len(artists) |-> artists[i].name], "; ")

(***************************************************************************)
(* _filter_out_compilations_from_releasegroups                             *)
(***************************************************************************)
NoSecondaryTypes(releasegroup) == ~Has(releasegroup, "secondarytypes")

\* Mutant of the filter: the filtered list is returned even when it is empty.
filter_out_compilations_always(releasegroups) ==
    SelectSeq(releasegroups, NoSecondaryTypes)

filter_out_compilations_from_releasegroups(releasegroups) ==
    LET filtered_releasegroups == SelectSeq(releasegroups, NoSecondaryTypes)
    IN  IF Len(filtered_releasegroups) # 0 THEN filtered_releasegroups ELSE releasegroups

(***************************************************************************)
(* _merge_matching_recordings                                              *)
(***************************************************************************)
\* "title" not in recording or "artists" not in recording
IsIncomplete(recording) == ~Has(recording, "title") \/ ~Has(recording, "artists")

\* artist.setdefault("id", ""): the artist dict after the call
setdefault_id(artist) ==
    IF Has(artist, "id") THEN artist ELSE [id |-> "", name |-> artist.name]

\* recording["artists"] after the comprehension of lines 223-225 has run over it
SetDefaultIds(artists) == [i \in 1..Len(artists) |-> setdefault_id(artists[i])]

\* ",".join([artist.setdefault("id", "") for artist in recording["artists"]])
artist_id_of(artists) ==
    Join([i \in 1..Len(artists) |-> setdefault_id(artists[i]).id], ",")

\* The two dicts before the loop.
EmptyGroups == [grouped_by_title_and_artist |-> <<>>, artists_by_title_and_artist |-> <<>>]

\* Mutant of OpenBucket: the artists are stored for every recording, not only
\* for the one that opens the bucket.
OpenBucket_stores_every_artists(st, title, artist_id, artists) ==
    LET g0 == st.grouped_by_title_and_artist
        a0 == st.artists_by_title_and_artist
        newtitle == ~DictHas(g0, title)
        g1 == IF newtitle THEN DictSet(g0, title, <<>>) ELSE g0
        a1 == IF newtitle THEN DictSet(a0, title, <<>>) ELSE a0
        newbucket == ~DictHas(DictGet(g1, title), artist_id)
        g2 == IF newbucket
              THEN DictSet(g1, title, DictSet(DictGet(g1, title), artist_id, <<>>))
              ELSE g1
        a2 == DictSet(a1, title, DictSet(DictGet(a1, title), artist_id, artists))
    IN  [grouped_by_title_and_artist |-> g2, artists_by_title_and_artist |-> a2]

\* Lines 226-231: open the title's dicts and the bucket when they are new; the
\* bucket keeps the artists of the recording that opens it.
OpenBucket(st, title, artist_id, artists) ==
    LET g0 == st.grouped_by_title_and_artist
        a0 == st.artists_by_title_and_artist
        newtitle == ~DictHas(g0, title)
        g1 == IF newtitle THEN DictSet(g0, title, <<>>) ELSE g0
        a1 == IF newtitle THEN DictSet(a0, title, <<>>) ELSE a0
        newbucket == ~DictHas(DictGet(g1, title), artist_id)
        g2 == IF newbucket
              THEN DictSet(g1, title, DictSet(DictGet(g1, title), artist_id, <<>>))
              ELSE g1
        a2 == IF newbucket
              THEN DictSet(a1, title, DictSet(DictGet(a1, title), artist_id, artists))
              ELSE a1
    IN  [grouped_by_title_and_artist |-> g2, artists_by_title_and_artist |-> a2]

\* Mutant of AddReleasegroups: the bucket's list is replaced, not extended.
AddReleasegroups_replaces(st, title, artist_id, releasegroups) ==
    LET g == st.grouped_by_title_and_artist
        entries == DictGet(g, title)
    IN  [st EXCEPT !.grouped_by_title_and_artist =
            DictSet(g, title, DictSet(entries, artist_id, releasegroups))]

\* Lines 232-234: the bucket's list + recording["releasegroups"]
AddReleasegroups(st, title, artist_id, releasegroups) ==
    LET g == st.grouped_by_title_and_artist
        entries == DictGet(g, title)
    IN  [st EXCEPT !.grouped_by_title_and_artist =
            DictSet(g, title,
                    DictSet(entries, artist_id, DictGet(entries, artist_id) \o releasegroups))]

\* Mutant of merge_recording: only a missing title is skipped; missing artists
\* are read as an empty list.
merge_recording_skips_title_only(st, recording) ==
    IF ~Has(recording, "title") THEN st
    ELSE LET given == IF Has(recording, "artists") THEN recording.artists ELSE <<>>
             artists == SetDefaultIds(given)
             artist_id == artist_id_of(given)
         IN  AddReleasegroups(OpenBucket(st, recording.title, artist_id, artists),
                              recording.title, artist_id, recording.releasegroups)

\* One iteration of the loop of lines 218-234.
merge_recording(st, recording) ==
    IF IsIncomplete(recording) THEN st
    ELSE LET artists == SetDefaultIds(recording.artists)
             artist_id == artist_id_of(recording.artists)
         IN  AddReleasegroups(OpenBucket(st, recording.title, artist_id, artists),
                              recording.title, artist_id, recording.releasegroups)

RECURSIVE MergeLoop(_, _)
MergeLoop(st, recs) ==
    IF recs = <<>> THEN st ELSE MergeLoop(merge_recording(st, Head(recs)), Tail(recs))

\* The (title, artist_id, releasegroups) triples of the comprehension of lines
\* 243-244, in iteration order.
RECURSIVE BucketItems(_)
BucketItems(grouped) ==
    IF grouped = <<>> THEN <<>>
    ELSE LET title == grouped[1].key
             entries == grouped[1].val
         IN  [i \in 1..Len(entries) |->
                 [title |-> title, artist_id |-> entries[i].key,
                  releasegroups |-> entries[i].val]]
             \o BucketItems(Tail(grouped))

\* utils.list_helper.remove_duplicate_dicts(releasegroups) of each bucket: the
\* arguments handed to _filter_out_compilations_from_releasegroups.
FilterArguments(st) ==
    LET items == BucketItems(st.grouped_by_title_and_artist)
    IN  [i \in 1..Len(items) |-> remove_duplicate_dicts(items[i].releasegroups)]

\* Lines 235-245: the list returned.
MergedList(st) ==
    LET items == BucketItems(st.grouped_by_title_and_artist)
    IN  [i \in 1..Len(items) |->
            [title |-> items[i].title,
             artists |-> DictGet(DictGet(st.artists_by_title_and_artist, items[i].title),
                                 items[i].artist_id),
             releasegroups |-> filter_out_compilations_from_releasegroups(
                                   remove_duplicate_dicts(items[i].releasegroups))]]

merge_matching_recordings(recs) == MergedList(MergeLoop(EmptyGroups, recs))

(***************************************************************************)
(* _extract_recordings                                                     *)
(***************************************************************************)
HasRecordings(result) == Has(result, "recordings")

\* utils.list_helper.flatten([result["recordings"] for result in results if ...])
all_recordings(rs) ==
    LET with == SelectSeq(rs, HasRecordings)
    IN  flatten([i \in 1..Len(with) |-> with[i].recordings])

extract_recordings(rs) == merge_matching_recordings(all_recordings(rs))

(***************************************************************************)
(* _get_result_for_releasegroup, _get_results_for_recordings               *)
(***************************************************************************)
\* Mutant of _get_result_for_releasegroup: "name" is preferred to "title".
get_result_prefers_name(releasegroup, artist_name, title) ==
    LET album_artist_name ==
            IF Has(releasegroup, "artists")
            THEN Some(join_artist_names(releasegroup.artists))
            ELSE None
        album_title ==
            IF Has(releasegroup, "name") THEN Some(releasegroup.name)
            ELSE IF Has(releasegroup, "title") THEN Some(releasegroup.title)
            ELSE None
    IN  [artist |-> artist_name, title |-> title,
         album |-> album_title, albumartist |-> album_artist_name]

get_result_for_releasegroup(releasegroup, artist_name, title) ==
    LET album_artist_name ==
            IF Has(releasegroup, "artists")
            THEN Some(join_artist_names(releasegroup.artists))
            ELSE None
        album_title ==
            IF Has(releasegroup, "title") THEN Some(releasegroup.title)
            ELSE IF Has(releasegroup, "name") THEN Some(releasegroup.name)
            ELSE None
    IN  [artist |-> artist_name, title |-> title,
         album |-> album_title, albumartist |-> album_artist_name]

\* recording["title"] + "_" + artist_name
titles_identified_key(title, artist_name) == title \o "_" \o artist_name

\* Mutant of KeyIdentified: the key is never found.
KeyIdentified_never(registry, key) == FALSE

\* key in titles_identified_by_acoustid (lines 83 and 291)
KeyIdentified(registry, key) == key \in Range(registry)

\* Lines 291-292: if key not in titles_identified_by_acoustid: append
RegisterIdentified(registry, key) ==
    IF ~KeyIdentified(registry, key) THEN Append(registry, key) ELSE registry

\* Mutant of results_for_recording: the key is registered once per release
\* group, inside the inner loop.
results_for_recording_registers_in_inner_loop(acc, recording) ==
    IF ~Has(recording, "artists") \/ ~Has(recording, "title") THEN acc
    ELSE LET artist_name == join_artist_names(recording.artists)
             rgs == recording.releasegroups
         IN  [results |-> acc.results
                          \o [i \in 1..Len(rgs) |->
                                 get_result_for_releasegroup(rgs[i], artist_name,
                                                             recording.title)],
              registry |-> IF rgs = <<>> THEN acc.registry
                           ELSE RegisterIdentified(
                                    acc.registry,
                                    titles_identified_key(recording.title, artist_name))]

\* One iteration of the loop of lines 284-299; acc holds the results list and
\* the module-level list.
results_for_recording(acc, recording) ==
    IF ~Has(recording, "artists") \/ ~Has(recording, "title") THEN acc
    ELSE LET artist_name == join_artist_names(recording.artists)
             rgs == recording.releasegroups
         IN  [results |-> acc.results
                          \o [i \in 1..Len(rgs) |->
                                 get_result_for_releasegroup(rgs[i], artist_name,
                                                             recording.title)],
              registry |-> RegisterIdentified(
                               acc.registry,
                               titles_identified_key(recording.title, artist_name))]

RECURSIVE ResultsLoop(_, _)
ResultsLoop(acc, recs) ==
    IF recs = <<>> THEN acc
    ELSE ResultsLoop(results_for_recording(acc, Head(recs)), Tail(recs))

get_results_for_recordings(recs, registry) ==
    ResultsLoop([results |-> <<>>, registry |-> registry], recs)

(***************************************************************************)
(* _parse_lookup_result                                                    *)
(***************************************************************************)
\* Mutant of ResponseAccepted: the status is not looked at.
ResponseAccepted_ignores_status(d) == Has(d, "results")

\* Neither raise of lines 176-179 is taken.
ResponseAccepted(d) == d.status = "ok" /\ Has(d, "results")

\* The message of the acoustid.WebServiceError raised for a rejected response.
WebServiceError(d) ==
    IF d.status # "ok" THEN "status: " \o d.status ELSE "results not included"

\* The response after the call: setdefault has written "id" into the artists of
\* every recording the merge loop did not skip.
SetDefaultInRecording(recording) ==
    IF IsIncomplete(recording) THEN recording
    ELSE [recording EXCEPT !.artists = SetDefaultIds(recording.artists)]

SetDefaultInResult(result) ==
    IF HasRecordings(result)
    THEN [result EXCEPT !.recordings =
             [i \in 1..Len(result.recordings) |-> SetDefaultInRecording(result.recordings[i])]]
    ELSE result

DataAfterCall(d) ==
    [d EXCEPT !.results = [i \in 1..Len(d.results) |-> SetDefaultInResult(d.results[i])]]

(***************************************************************************)
(* Lookup responses (the input contract of the AcoustID service)           *)
(***************************************************************************)
ACDC == [id |-> "a1", name |-> "AC/DC"]

Cellos == [id |-> "a2", name |-> "2Cellos"]

ACDCNoId == [name |-> "AC/DC"]

CellosNoId == [name |-> "2Cellos"]

\* title only
RazorsEdge == [id |-> "g1", title |-> "The Razor's Edge"]

\* title and name, own artists, a compilation
Celloverse ==
    [id |-> "g2", title |-> "Celloverse", name |-> "Celloverse (Deluxe)",
     artists |-> <<Cellos>>, secondarytypes |-> <<"Compilation">>]

\* name only, own artists
Live == [id |-> "g3", name |-> "Live", artists |-> <<ACDC, CellosNoId>>]

\* neither title nor name, a soundtrack
Soundtrack == [id |-> "g4", secondarytypes |-> <<"Soundtrack">>]

ThunderAlbum ==
    [title |-> "Thunderstruck", artists |-> <<ACDC>>, releasegroups |-> <<RazorsEdge>>]

ThunderCompilation ==
    [title |-> "Thunderstruck", artists |-> <<ACDC>>,
     releasegroups |-> <<Celloverse, Live, RazorsEdge>>]

ThunderCover ==
    [title |-> "Thunderstruck", artists |-> <<Cellos>>,
     releasegroups |-> <<Celloverse, Soundtrack>>]

ThunderNoId ==
    [title |-> "Thunderstruck", artists |-> <<ACDCNoId>>, releasegroups |-> <<Soundtrack>>]

FooNoId == [title |-> "Foo", artists |-> <<ACDCNoId>>, releasegroups |-> <<Live>>]

FooNoIdOther ==
    [title |-> "Foo", artists |-> <<CellosNoId>>, releasegroups |-> <<Soundtrack, Live>>]

FooDuo == [title |-> "Foo", artists |-> <<ACDC, CellosNoId>>, releasegroups |-> <<>>]

Untitled == [artists |-> <<ACDC>>, releasegroups |-> <<RazorsEdge>>]

NoArtists == [title |-> "Thunderstruck", releasegroups |-> <<Live>>]

Recordings ==
    { ThunderAlbum, ThunderCompilation, ThunderCover, ThunderNoId,
      FooNoId, FooNoIdOther, FooDuo, Untitled, NoArtists }

RecordingLists == UNION {[1..n -> Recordings] : n \in 0..MaxRecs}

\* The recordings spread over two result entries, with an entry that has no
\* "recordings" between them.
ResultsOf(recs, cut) ==
    << [id |-> "r1", recordings |-> SubSeq(recs, 1, cut)],
       [id |-> "r2"],
       [id |-> "r3", recordings |-> SubSeq(recs, cut + 1, Len(recs))] >>

\* The first entry holds no recording or the first one.
Cuts(recs) == {cut \in {0, 1} : cut <= Len(recs)}

ResultLists ==
    UNION {{ResultsOf(recs, cut) : cut \in Cuts(recs)} : recs \in RecordingLists}
    \cup {<<>>}

\* A response that reports a failure carries whatever results it likes; those
\* with at most one recording are enumerated.
FailedResultLists == {rs \in ResultLists : Len(all_recordings(rs)) <= 1}

Responses ==
    {[status |-> "ok", results |-> rs] : rs \in ResultLists}
    \cup {[status |-> s, results |-> rs] : s \in {"error", "invalid"}, rs \in FailedResultLists}
    \cup {[status |-> s] : s \in {"ok", "error", "invalid"}}

\* The module-level list when a lookup begins: empty, or holding keys of earlier calls.
InitialRegistries == { <<>>, <<"Foo_Bar", "Thunderstruck_AC/DC">> }

(***************************************************************************)
(* State outside the call under study                                      *)
(***************************************************************************)
NoData == [status |-> "none"]

NoMetadata == [title |-> "", artist |-> ""]

Threads == 1..NumThreads

NoThread == 0

Snapshot == [registry |-> titles_identified_by_acoustid, service_calls |-> service_calls]

NoLookup ==
    /\ data = NoData
    /\ filter_args = <<>>
    /\ recordings = <<>>
    /\ results = <<>>
    /\ raised = None

NoSubmit ==
    /\ metadata = NoMetadata
    /\ submit_ret = None

NoThreads ==
    /\ guarded = FALSE
    /\ lock = NoThread
    /\ tpc = [t \in Threads |-> "idle"]
    /\ top = [t \in Threads |-> "none"]
    /\ tkey = [t \in Threads |-> ""]

(***************************************************************************)
(* _parse_lookup_result as a step                                          *)
(***************************************************************************)
\* The keys the loop of _get_results_for_recordings computes for recs.
ProducedKeys(recs) ==
    {titles_identified_key(recs[i].title, join_artist_names(recs[i].artists)) :
        i \in 1..Len(recs)}

\* Lines 181-182: the response is parsed and the results are returned.
ParseReturns(d) ==
    /\ ResponseAccepted(d)
    /\ LET st == MergeLoop(EmptyGroups, all_recordings(d.results))
           merged == MergedList(st)
           out == get_results_for_recordings(merged, titles_identified_by_acoustid)
       IN  /\ data' = DataAfterCall(d)
           /\ filter_args' = FilterArguments(st)
           /\ recordings' = merged
           /\ results' = out.results
           /\ titles_identified_by_acoustid' = out.registry
           /\ produced' = produced \cup ProducedKeys(merged)
    /\ raised' = None
    /\ at_call' = Snapshot
    /\ pc' = "returned"
    /\ metadata' = NoMetadata
    /\ submit_ret' = None
    /\ UNCHANGED <<service_calls, guarded, lock, tpc, top, tkey>>

\* Lines 176-179: acoustid.WebServiceError is raised.
ParseRaises(d) ==
    /\ ~ResponseAccepted(d)
    /\ data' = d
    /\ raised' = Some(WebServiceError(d))
    /\ filter_args' = <<>>
    /\ recordings' = <<>>
    /\ results' = <<>>
    /\ at_call' = Snapshot
    /\ pc' = "raised"
    /\ metadata' = NoMetadata
    /\ submit_ret' = None
    /\ UNCHANGED <<titles_identified_by_acoustid, produced, service_calls,
                   guarded, lock, tpc, top, tkey>>

(***************************************************************************)
(* One call of _parse_lookup_result on any response                        *)
(***************************************************************************)
Init ==
    /\ data \in Responses
    /\ filter_args = <<>>
    /\ recordings = <<>>
    /\ results = <<>>
    /\ raised = None
    /\ titles_identified_by_acoustid \in InitialRegistries
    /\ NoSubmit
    /\ service_calls = <<>>
    /\ at_call = Snapshot
    /\ produced = {}
    /\ pc = "called"
    /\ NoThreads

LookupReturns == pc = "called" /\ ParseReturns(data)

LookupRaises == pc = "called" /\ ParseRaises(data)

Next == LookupReturns \/ LookupRaises

Spec == Init /\ [][Next]_vars

(***************************************************************************)
(* submit                                                                  *)
(***************************************************************************)
\* What the acoustid library does once submit calls it: fingerprint_file
\* raises FingerprintGenerationError, or acoustid.submit succeeds, or it raises
\* FingerprintSubmissionError or WebServiceError.
Outcomes == {"fingerprint_error", "submitted", "submission_error"}

\* The calls of lines 88 and 104 for one outcome.
ExternalCalls(key, outcome) ==
    IF outcome = "fingerprint_error"
    THEN << [fn |-> "fingerprint_file", key |-> key] >>
    ELSE << [fn |-> "fingerprint_file", key |-> key], [fn |-> "submit", key |-> key] >>

\* Lines 83-84: the key is in the list and submit returns False.
SubmitSkips(m) ==
    /\ KeyIdentified(titles_identified_by_acoustid, titles_identified_key(m.title, m.artist))
    /\ submit_ret' = Some(FALSE)
    /\ metadata' = m
    /\ at_call' = Snapshot
    /\ pc' = "submitted"
    /\ data' = NoData
    /\ filter_args' = <<>>
    /\ recordings' = <<>>
    /\ results' = <<>>
    /\ raised' = None
    /\ UNCHANGED <<titles_identified_by_acoustid, service_calls, produced,
                   guarded, lock, tpc, top, tkey>>

\* Lines 85-110: the key is appended and the acoustid library is called.
SubmitProceeds(m, outcome) ==
    LET key == titles_identified_key(m.title, m.artist)
    IN  /\ ~KeyIdentified(titles_identified_by_acoustid, key)
        /\ titles_identified_by_acoustid' = Append(titles_identified_by_acoustid, key)
        /\ service_calls' = service_calls \o ExternalCalls(key, outcome)
        /\ submit_ret' = Some(outcome = "submitted")
        /\ metadata' = m
        /\ at_call' = Snapshot
        /\ pc' = "submitted"
        /\ data' = NoData
        /\ filter_args' = <<>>
        /\ recordings' = <<>>
        /\ results' = <<>>
        /\ raised' = None
        /\ UNCHANGED <<produced, guarded, lock, tpc, top, tkey>>

(***************************************************************************)
(* A process that calls lookup and submit one after the other              *)
(***************************************************************************)
SessionRecordingLists ==
    { <<>>, <<ThunderAlbum>>, <<ThunderCompilation, ThunderNoId>>, <<FooDuo>>,
      <<ThunderCover, Untitled>>, <<FooDuo, ThunderAlbum>> }

SessionResponses ==
    {[status |-> "ok", results |-> ResultsOf(recs, 0)] : recs \in SessionRecordingLists}
    \cup {[status |-> "error"], [status |-> "ok"]}

SessionMetadata ==
    { [title |-> "Thunderstruck", artist |-> "AC/DC"],
      [title |-> "Foo", artist |-> "AC/DC; 2Cellos"],
      [title |-> "Foo", artist |-> "Bar"] }

SessionInit ==
    /\ NoLookup
    /\ NoSubmit
    /\ titles_identified_by_acoustid = <<>>
    /\ service_calls = <<>>
    /\ at_call = Snapshot
    /\ produced = {}
    /\ pc = "idle"
    /\ NoThreads

SessionLookupReturns == \E d \in SessionResponses : ParseReturns(d)

SessionLookupRaises == \E d \in SessionResponses : ParseRaises(d)

SessionSubmitSkips == \E m \in SessionMetadata : SubmitSkips(m)

SessionSubmitProceeds == \E m \in SessionMetadata, outcome \in Outcomes : SubmitProceeds(m, outcome)

SessionNext ==
    \/ SessionLookupReturns
    \/ SessionLookupRaises
    \/ SessionSubmitSkips
    \/ SessionSubmitProceeds

SessionSpec == SessionInit /\ [][SessionNext]_vars

(***************************************************************************)
(* Concurrent call sites: the membership test and the append of lines      *)
(* 83-85 and 291-292 as separate steps, with or without a guard around     *)
(* them                                                                    *)
(***************************************************************************)
ThreadKeys == {"Thunderstruck_AC/DC", "Foo_Bar"}

ThreadInit ==
    /\ NoLookup
    /\ NoSubmit
    /\ titles_identified_by_acoustid = <<>>
    /\ service_calls = <<>>
    /\ at_call = Snapshot
    /\ produced = {}
    /\ pc = "threads"
    /\ guarded \in BOOLEAN
    /\ lock = NoThread
    /\ tpc = [t \in Threads |-> "idle"]
    /\ top = [t \in Threads |-> "none"]
    /\ tkey = [t \in Threads |-> ""]

sequential == <<data, filter_args, recordings, results, raised, metadata, submit_ret,
                at_call, produced, pc, guarded>>

\* A call site enters _get_results_for_recordings or submit with a key.
ThreadCall(t) ==
    /\ tpc[t] = "idle"
    /\ \E op \in {"lookup", "submit"}, key \in ThreadKeys :
          /\ top' = [top EXCEPT ![t] = op]
          /\ tkey' = [tkey EXCEPT ![t] = key]
    /\ tpc' = [tpc EXCEPT ![t] = IF guarded THEN "enter" ELSE "check"]
    /\ UNCHANGED <<titles_identified_by_acoustid, service_calls, lock>>
    /\ UNCHANGED sequential

\* The guard is taken before the membership test.
ThreadAcquire(t) ==
    /\ tpc[t] = "enter"
    /\ lock = NoThread
    /\ lock' = t
    /\ tpc' = [tpc EXCEPT ![t] = "check"]
    /\ UNCHANGED <<titles_identified_by_acoustid, service_calls, top, tkey>>
    /\ UNCHANGED sequential

\* Mutant of ThreadCheck: the membership test always finds the key absent.
ThreadCheck_always_absent(t) ==
    /\ tpc[t] = "check"
    /\ tpc' = [tpc EXCEPT ![t] = "append"]
    /\ UNCHANGED <<titles_identified_by_acoustid, service_calls, lock, top, tkey>>
    /\ UNCHANGED sequential

\* The membership test of line 83 or 291.
ThreadCheck(t) ==
    /\ tpc[t] = "check"
    /\ tpc' = [tpc EXCEPT ![t] =
                  IF KeyIdentified(titles_identified_by_acoustid, tkey[t])
                  THEN "skip" ELSE "append"]
    /\ UNCHANGED <<titles_identified_by_acoustid, service_calls, lock, top, tkey>>
    /\ UNCHANGED sequential

\* The append of line 85 or 292.
ThreadAppend(t) ==
    /\ tpc[t] = "append"
    /\ titles_identified_by_acoustid' = Append(titles_identified_by_acoustid, tkey[t])
    /\ tpc' = [tpc EXCEPT ![t] = "appended"]
    /\ UNCHANGED <<service_calls, lock, top, tkey>>
    /\ UNCHANGED sequential

\* The guard is given back after the append, or after the test when nothing is
\* appended; submit goes on to the acoustid library only after an append.
ThreadLeave(t) ==
    /\ tpc[t] \in {"skip", "appended"}
    /\ lock' = IF guarded THEN NoThread ELSE lock
    /\ tpc' = [tpc EXCEPT ![t] =
                  IF tpc[t] = "appended" /\ top[t] = "submit" THEN "service" ELSE "done"]
    /\ UNCHANGED <<titles_identified_by_acoustid, service_calls, top, tkey>>
    /\ UNCHANGED sequential

\* Line 88: submit calls acoustid.fingerprint_file.
ThreadService(t) ==
    /\ tpc[t] = "service"
    /\ service_calls' = Append(service_calls, [fn |-> "fingerprint_file", key |-> tkey[t]])
    /\ tpc' = [tpc EXCEPT ![t] = "done"]
    /\ UNCHANGED <<titles_identified_by_acoustid, lock, top, tkey>>
    /\ UNCHANGED sequential

ThreadNext ==
    \E t \in Threads :
        \/ ThreadCall(t)
        \/ ThreadAcquire(t)
        \/ ThreadCheck(t)
        \/ ThreadAppend(t)
        \/ ThreadLeave(t)
        \/ ThreadService(t)

ThreadSpec == ThreadInit /\ [][ThreadNext]_vars

(***************************************************************************)
(* Vocabulary of the properties, stated without the functions under test   *)
(***************************************************************************)
\* The strings joined with sep between them.
RECURSIVE Joined(_, _)
Joined(strs, sep) ==
    IF Len(strs) = 0 THEN ""
    ELSE IF Len(strs) = 1 THEN strs[1]
    ELSE Joined(SubSeq(strs, 1, Len(strs) - 1), sep) \o sep \o strs[Len(strs)]

NamesOf(artists) == [i \in 1..Len(artists) |-> artists[i].name]

\* The ordered artist ids, a missing id read as the empty string.
IdsOf(artists) ==
    [i \in 1..Len(artists) |-> IF "id" \in DOMAIN artists[i] THEN artists[i].id ELSE ""]

ArtistKey(artists) == Joined(IdsOf(artists), ",")

IsComplete(recording) ==
    "title" \in DOMAIN recording /\ "artists" \in DOMAIN recording

\* The recordings of the response in result-entry order, then within-entry order.
RECURSIVE EntriesUpTo(_, _)
EntriesUpTo(rs, n) ==
    IF n = 0 THEN <<>>
    ELSE EntriesUpTo(rs, n - 1)
         \o (IF "recordings" \in DOMAIN rs[n] THEN rs[n].recordings ELSE <<>>)

InputRecordings == EntriesUpTo(data.results, Len(data.results))

CompleteInput == SelectSeq(InputRecordings, IsComplete)

\* The complete input recordings that fall into merged recording m's bucket.
InBucket(r, m) == r.title = m.title /\ ArtistKey(r.artists) = ArtistKey(m.artists)

BucketIndexes(m) == {i \in 1..Len(CompleteInput) : InBucket(CompleteInput[i], m)}

Least(S) == CHOOSE i \in S : \A j \in S : i <= j

FirstOfBucket(m) == Least(BucketIndexes(m))

FirstOfTitle(title) == Least({i \in 1..Len(CompleteInput) : CompleteInput[i].title = title})

\* Release groups of the bucket's recordings, concatenated in input order.
RECURSIVE BucketConcat(_, _)
BucketConcat(m, n) ==
    IF n = 0 THEN <<>>
    ELSE BucketConcat(m, n - 1)
         \o (IF InBucket(CompleteInput[n], m) THEN CompleteInput[n].releasegroups ELSE <<>>)

\* The first occurrence of every element, in order.
FirstOccurrences(s) ==
    LET keep == {i \in 1..Len(s) : \A j \in 1..(i - 1) : s[j] # s[i]}
        nth[k \in 0..Len(s)] ==
            IF k = 0 THEN 0 ELSE Least({i \in keep : i > nth[k - 1]})
    IN  [k \in 1..Cardinality(keep) |-> s[nth[k]]]

DedupUnion(m) == FirstOccurrences(BucketConcat(m, Len(CompleteInput)))

IsCompilation(releasegroup) == "secondarytypes" \in DOMAIN releasegroup

IsPrimary(releasegroup) == "secondarytypes" \notin DOMAIN releasegroup

PrimaryPreferred(rgs) ==
    IF \E i \in 1..Len(rgs) : IsPrimary(rgs[i]) THEN SelectSeq(rgs, IsPrimary) ELSE rgs

\* Number of output records of the merged recordings before the n-th.
RECURSIVE Offset(_)
Offset(n) ==
    IF n <= 1 THEN 0 ELSE Offset(n - 1) + Len(recordings[n - 1].releasegroups)

NoDuplicates(s) == \A i, j \in 1..Len(s) : s[i] = s[j] => i = j

IsPrefix(s, t) == Len(s) <= Len(t) /\ SubSeq(t, 1, Len(s)) = s

(***************************************************************************)
(* C1                                                                      *)
(***************************************************************************)
\* C1: a response whose status is not "ok" makes the call raise a
\* WebServiceError carrying that status, and a response with status "ok" and
\* no results makes it raise a WebServiceError; in both cases nothing is
\* returned and titles_identified_by_acoustid is as it was before the call.
C1_RejectedResponseFailsAtomically ==
    pc # "called" =>
        /\ data.status # "ok" =>
              /\ pc = "raised"
              /\ raised = <<"status: " \o data.status>>
              /\ results = <<>>
              /\ titles_identified_by_acoustid = at_call.registry
        /\ (data.status = "ok" /\ "results" \notin DOMAIN data) =>
              /\ pc = "raised"
              /\ raised = <<"results not included">>
              /\ results = <<>>
              /\ titles_identified_by_acoustid = at_call.registry

\* A failed status with results that hold a complete recording, and a list
\* that already holds keys.
C1_Witness ==
    /\ pc = "raised"
    /\ data.status = "error"
    /\ "results" \in DOMAIN data
    /\ CompleteInput # <<>>
    /\ titles_identified_by_acoustid # <<>>
    /\ raised = <<"status: error">>

(***************************************************************************)
(* C2                                                                      *)
(***************************************************************************)
SameTrack(r1, r2) == r1.title = r2.title /\ IdsOf(r1.artists) = IdsOf(r2.artists)

MergedInto(r1, r2) ==
    {k \in 1..Len(recordings) : InBucket(r1, recordings[k]) /\ InBucket(r2, recordings[k])}

\* C2 as stated: two recordings with the same title and the same ordered artist
\* ids are merged into one merged recording, whose release groups are the
\* deduplicated union (first occurrences) of the inputs' release groups.
C2_MergedIsDedupUnion ==
    pc = "returned" =>
        \A i, j \in 1..Len(CompleteInput) :
            (i < j /\ SameTrack(CompleteInput[i], CompleteInput[j])) =>
                /\ Cardinality(MergedInto(CompleteInput[i], CompleteInput[j])) = 1
                /\ \A k \in MergedInto(CompleteInput[i], CompleteInput[j]) :
                      recordings[k].releasegroups = DedupUnion(recordings[k])

\* C2 amended: ... whose release groups are that deduplicated union of the
\* bucket's release groups with the release group filter applied: only the
\* members without secondarytypes when there is one, all of them otherwise.
C2_MergedIsFilteredDedupUnion ==
    pc = "returned" =>
        /\ \A i, j \in 1..Len(CompleteInput) :
              (i < j /\ SameTrack(CompleteInput[i], CompleteInput[j])) =>
                  Cardinality(MergedInto(CompleteInput[i], CompleteInput[j])) = 1
        /\ \A k \in 1..Len(recordings) :
              recordings[k].releasegroups = PrimaryPreferred(DedupUnion(recordings[k]))

\* Two recordings of one track arrive in different result entries, share a
\* release group, and one brings a compilation that the other's album displaces.
C2_Witness ==
    /\ pc = "returned"
    /\ Len(data.results) = 3
    /\ Len(data.results[1].recordings) = 1
    /\ \E j \in 1..Len(data.results[3].recordings) :
          LET r1 == data.results[1].recordings[1]
              r2 == data.results[3].recordings[j]
          IN  /\ IsComplete(r1) /\ IsComplete(r2) /\ SameTrack(r1, r2)
              /\ Range(r1.releasegroups) \cap Range(r2.releasegroups) # {}
              /\ \E k \in MergedInto(r1, r2) :
                    /\ recordings[k].releasegroups # DedupUnion(recordings[k])
                    /\ recordings[k].releasegroups = PrimaryPreferred(DedupUnion(recordings[k]))

(***************************************************************************)
(* C3                                                                      *)
(***************************************************************************)
\* C3: for every merged recording, when its deduplicated release groups hold
\* one without secondarytypes the final list is exactly those without it, in
\* order, and holds none with it; when all have it the list is unchanged; a
\* non-empty list is never made empty.
C3_FilterPrefersPrimary ==
    pc = "returned" =>
        /\ Len(filter_args) = Len(recordings)
        /\ \A k \in 1..Len(recordings) :
              LET given == filter_args[k]
                  final == recordings[k].releasegroups
              IN  /\ (\E i \in 1..Len(given) : IsPrimary(given[i])) =>
                        /\ final = SelectSeq(given, IsPrimary)
                        /\ \A i \in 1..Len(final) : ~IsCompilation(final[i])
                  /\ (\A i \in 1..Len(given) : IsCompilation(given[i])) => final = given
                  /\ given # <<>> => final # <<>>

\* One merged recording loses a compilation to an album, another keeps its
\* compilations because it has nothing else.
C3_Witness ==
    /\ pc = "returned"
    /\ \E k \in 1..Len(recordings) :
          /\ \E i \in 1..Len(filter_args[k]) : IsCompilation(filter_args[k][i])
          /\ Len(recordings[k].releasegroups) < Len(filter_args[k])
    /\ \E k \in 1..Len(recordings) :
          /\ filter_args[k] # <<>>
          /\ \A i \in 1..Len(filter_args[k]) : IsCompilation(filter_args[k][i])
          /\ recordings[k].releasegroups = filter_args[k]

(***************************************************************************)
(* C4                                                                      *)
(***************************************************************************)
WithoutIncomplete(d) ==
    [d EXCEPT !.results =
        [i \in 1..Len(d.results) |->
            IF "recordings" \in DOMAIN d.results[i]
            THEN [d.results[i] EXCEPT !.recordings = SelectSeq(d.results[i].recordings, IsComplete)]
            ELSE d.results[i]]]

\* C4: a recording without title or without artists contributes nothing: the
\* merge buckets, the output and titles_identified_by_acoustid are those of the
\* same response with every such recording removed.
C4_IncompleteRecordingsContributeNothing ==
    pc = "returned" =>
        LET complete == WithoutIncomplete(data)
            st == MergeLoop(EmptyGroups, all_recordings(complete.results))
            out == get_results_for_recordings(MergedList(st), at_call.registry)
        IN  /\ MergeLoop(EmptyGroups, all_recordings(data.results)) = st
            /\ recordings = MergedList(st)
            /\ results = out.results
            /\ titles_identified_by_acoustid = out.registry
            /\ \A k \in 1..Len(recordings) : BucketIndexes(recordings[k]) # {}

\* A response with a recording without title and one without artists, both
\* with release groups, beside a complete one that yields output.
C4_Witness ==
    /\ pc = "returned"
    /\ \E i \in 1..Len(InputRecordings) :
          "title" \notin DOMAIN InputRecordings[i] /\ InputRecordings[i].releasegroups # <<>>
    /\ \E i \in 1..Len(InputRecordings) :
          "artists" \notin DOMAIN InputRecordings[i] /\ InputRecordings[i].releasegroups # <<>>
    /\ Len(results) = 1
    /\ Len(titles_identified_by_acoustid) = Len(at_call.registry) + 1

(***************************************************************************)
(* C5                                                                      *)
(***************************************************************************)
Album(releasegroup) ==
    IF "title" \in DOMAIN releasegroup THEN <<releasegroup.title>>
    ELSE IF "name" \in DOMAIN releasegroup THEN <<releasegroup.name>>
    ELSE <<>>

AlbumArtist(releasegroup) ==
    IF "artists" \in DOMAIN releasegroup
    THEN <<Joined(NamesOf(releasegroup.artists), "; ")>>
    ELSE <<>>

\* C5: every merged recording yields one output record per release group it
\* kept, in order, carrying its title, its artist names joined with "; ", the
\* release group's title, else name, else nothing as album, and the release
\* group's own artist names joined, else nothing, as albumartist; the output
\* is as long as the merged recordings' release groups together.
C5_OneRecordPerReleaseGroup ==
    pc = "returned" =>
        /\ Len(results) = Offset(Len(recordings) + 1)
        /\ \A k \in 1..Len(recordings) :
              \A i \in 1..Len(recordings[k].releasegroups) :
                  LET rg == recordings[k].releasegroups[i]
                      record == results[Offset(k) + i]
                  IN  /\ record.title = recordings[k].title
                      /\ record.artist = Joined(NamesOf(recordings[k].artists), "; ")
                      /\ record.album = Album(rg)
                      /\ record.albumartist = AlbumArtist(rg)

\* Three merged recordings: one with two release groups, one with none, one
\* with a release group that has title and name; a release group with neither
\* and one with two artists of its own are among those expanded.
C5_Witness ==
    /\ pc = "returned"
    /\ Len(recordings) = 3
    /\ \E k \in 1..3 : Len(recordings[k].releasegroups) = 2
    /\ \E k \in 1..3 : Len(recordings[k].releasegroups) = 0
    /\ \E i \in 1..Len(results) : results[i].album = <<>>
    /\ \E i \in 1..Len(results) : results[i].albumartist = <<"AC/DC; 2Cellos">>
    /\ \E i \in 1..Len(results) : results[i].album = <<"Celloverse">>

C8_ArtistsOfFirstRecording ==
    pc = "returned" =>
        \A k \in 1..Len(recordings) :
            LET first == CompleteInput[FirstOfBucket(recordings[k])]
            IN  /\ recordings[k].artists = first.artists
                /\ \A i \in 1..Len(recordings[k].releasegroups) :
                      results[Offset(k) + i].artist = Joined(NamesOf(first.artists), "; ")

\* Two recordings of one title whose artists have no id and different names
\* share a bucket; its output records carry the first one's name.
C8_Witness ==
    /\ pc = "returned"
    /\ \E i, j \in 1..Len(CompleteInput) :
          /\ i < j
          /\ CompleteInput[i].title = CompleteInput[j].title
          /\ \A a \in 1..Len(CompleteInput[i].artists) : CompleteInput[i].artists[a].id = ""
          /\ ArtistKey(CompleteInput[i].artists) = ArtistKey(CompleteInput[j].artists)
          /\ NamesOf(CompleteInput[i].artists) # NamesOf(CompleteInput[j].artists)
          /\ \E k \in 1..Len(recordings) :
                /\ FirstOfBucket(recordings[k]) = i
                /\ j \in BucketIndexes(recordings[k])
                /\ Len(recordings[k].releasegroups) > 0
                /\ results[Offset(k) + 1].artist = Joined(NamesOf(CompleteInput[i].artists), "; ")

(***************************************************************************)
(* C6                                                                      *)
(***************************************************************************)
SubmitKey(m) == m.title \o "_" \o m.artist

FingerprintCalls(key) ==
    {i \in 1..Len(service_calls) :
        service_calls[i].fn = "fingerprint_file" /\ service_calls[i].key = key}

\* C6: once a lookup has produced a recording with a title and joined artist
\* string, a later submit with that title and artist returns False and calls
\* neither fingerprint_file nor acoustid.submit; submit goes on to them only
\* when its key was not yet in titles_identified_by_acoustid, so no key ever
\* reaches them twice.
C6_IdentifiedIsNotSubmitted ==
    /\ pc = "submitted" =>
          /\ SubmitKey(metadata) \in produced =>
                /\ submit_ret = <<FALSE>>
                /\ service_calls = at_call.service_calls
          /\ service_calls # at_call.service_calls =>
                SubmitKey(metadata) \notin Range(at_call.registry)
    /\ \A i \in 1..Len(service_calls) :
          Cardinality(FingerprintCalls(service_calls[i].key)) = 1

\* A submit for a title a lookup identified returns False, after a submit for
\* another title went through.
C6_Witness ==
    /\ pc = "submitted"
    /\ SubmitKey(metadata) \in produced
    /\ submit_ret = <<FALSE>>
    /\ FingerprintCalls(SubmitKey(metadata)) = {}
    /\ service_calls # <<>>

(***************************************************************************)
(* C9                                                                      *)
(***************************************************************************)
RecordingKey(recording) ==
    recording.title \o "_" \o Joined(NamesOf(recording.artists), "; ")

\* C9: under sequential use the key of every merged recording a lookup
\* produces is in titles_identified_by_acoustid when the lookup returns,
\* whatever the number of its release groups; the list holds every key
\* produced so far, holds no key twice, and every call leaves what it held
\* in place.
C9_RegistryHoldsEveryProducedKeyOnce ==
    /\ pc = "returned" =>
          \A k \in 1..Len(recordings) :
              RecordingKey(recordings[k]) \in Range(titles_identified_by_acoustid)
    /\ produced \subseteq Range(titles_identified_by_acoustid)
    /\ NoDuplicates(titles_identified_by_acoustid)
    /\ IsPrefix(at_call.registry, titles_identified_by_acoustid)

\* After a submit went through, a lookup produces a recording without release
\* groups whose key is new, beside one that yields output.
C9_Witness ==
    /\ pc = "returned"
    /\ service_calls # <<>>
    /\ at_call.registry # <<>>
    /\ \E k \in 1..Len(recordings) :
          /\ recordings[k].releasegroups = <<>>
          /\ RecordingKey(recordings[k]) \notin Range(at_call.registry)
          /\ RecordingKey(recordings[k]) \in Range(titles_identified_by_acoustid)
    /\ results # <<>>

(***************************************************************************)
(* C10                                                                     *)
(***************************************************************************)
PassedCheck(t) == tpc[t] \in {"append", "appended", "service"}

Occurrences(key) ==
    {i \in 1..Len(titles_identified_by_acoustid) : titles_identified_by_acoustid[i] = key}

\* C10: with a guard around the membership test and the append, no two call
\* sites pass the test for one key: no key is appended twice and no key
\* reaches fingerprint_file twice.  (Without the guard such a state is
\* reachable: C10_Witness.)
C10_GuardMakesCheckAndAppendAtomic ==
    guarded =>
        /\ NoDuplicates(titles_identified_by_acoustid)
        /\ \A key \in ThreadKeys : Cardinality(FingerprintCalls(key)) <= 1
        /\ \A t1, t2 \in Threads :
              (t1 # t2 /\ tkey[t1] = tkey[t2] /\ PassedCheck(t1)) =>
                  ~(tpc[t2] \in {"append", "appended"})

\* Without the guard two submit calls for one key both pass the test: the key
\* is in the list twice and fingerprint_file was called twice for it.
C10_Witness ==
    /\ ~guarded
    /\ \E key \in ThreadKeys :
          /\ Cardinality(Occurrences(key)) = 2
          /\ Cardinality(FingerprintCalls(key)) = 2
          /\ \E t1, t2 \in Threads :
                t1 # t2 /\ tkey[t1] = key /\ tkey[t2] = key
                /\ top[t1] = "submit" /\ top[t2] = "submit"

====
